---------------------------- MODULE Spec2Model ----------------------------
(***************************************************************************)
(* Fitracker editor (src/server.js): the /save-exercise write handler, its *)
(* validation and normalisation of the submitted four-level tree, the      *)
(* merge into the exercise document and the optimistic-concurrency commit  *)
(* against the file held in the GitHub repository.                         *)
(*                                                                         *)
(* JavaScript strings are sequences of one-character strings, so that      *)
(* trim, the id pattern, toLowerCase and localeCompare are computed.       *)
(* A JSON object is a record; an omitted key is a field the record lacks.  *)
(***************************************************************************)
EXTENDS Naturals, Sequences, FiniteSets, TLC

(***************************************************************************)
(* Bounds of the model.                                                    *)
(***************************************************************************)
\* Requests the clients send in one behaviour of Spec.
MaxRequests == 2

(***************************************************************************)
(* Strings.                                                                *)
(***************************************************************************)
LowerLetters == <<"a", "b", "c", "d", "e", "f", "g", "h", "i", "j", "k", "l", "m",
                  "n", "o", "p", "q", "r", "s", "t", "u", "v", "w", "x", "y", "z">>
UpperLetters == <<"A", "B", "C", "D", "E", "F", "G", "H", "I", "J", "K", "L", "M",
                  "N", "O", "P", "Q", "R", "S", "T", "U", "V", "W", "X", "Y", "Z">>
Digits == <<"0", "1", "2", "3", "4", "5", "6", "7", "8", "9">>

Range(s) == {s[i] : i \in DOMAIN s}

IndexOf(s, c) == CHOOSE i \in DOMAIN s : s[i] = c

\* The characters String.prototype.trim removes (of the model's alphabet).
IsWhiteSpace(c) == c \in {" ", "\t", "\n"}

RECURSIVE TrimStart(_)
TrimStart(str) ==
    IF str # <<>> /\ IsWhiteSpace(Head(str)) THEN TrimStart(Tail(str)) ELSE str

RECURSIVE TrimEnd(_)
TrimEnd(str) ==
    IF str # <<>> /\ IsWhiteSpace(str[Len(str)])
    THEN TrimEnd(SubSeq(str, 1, Len(str) - 1))
    ELSE str

\* item.id.trim(), item.name.trim()
Trim(str) == TrimEnd(TrimStart(str))

\* JavaScript truthiness of a string: an absent field and '' are both falsy.
Truthy(str) == str # <<>>

\* /^[a-z0-9-]+$/.test(str)
TestIdPattern(str) ==
    /\ Len(str) >= 1
    /\ \A i \in DOMAIN str : str[i] \in Range(LowerLetters) \cup Range(Digits) \cup {"-"}

ToLowerChar(c) ==
    IF c \in Range(UpperLetters) THEN LowerLetters[IndexOf(UpperLetters, c)] ELSE c

\* str.toLowerCase()
ToLowerCase(str) == [i \in DOMAIN str |-> ToLowerChar(str[i])]

(***************************************************************************)
(* String.prototype.localeCompare with the default collator: the strings   *)
(* are compared by their primary weights first (white space, punctuation,  *)
(* digits, letters; case ignored), and strings equal at that level by      *)
(* case, the lower-case letter first.                                      *)
(***************************************************************************)
CollationOrder == <<"\t", "\n", " ", "_", "-", "!">> \o Digits \o LowerLetters

PrimaryWeight(c) == IndexOf(CollationOrder, ToLowerChar(c))

CaseWeight(c) == IF c \in Range(UpperLetters) THEN 1 ELSE 0

\* -1, 0, 1 as 0, 1, 2: the lexicographic comparison of two sequences of weights.
RECURSIVE CompareWeights(_, _)
CompareWeights(u, v) ==
    IF u = <<>> /\ v = <<>> THEN 1
    ELSE IF u = <<>> THEN 0
    ELSE IF v = <<>> THEN 2
    ELSE IF Head(u) < Head(v) THEN 0
    ELSE IF Head(u) > Head(v) THEN 2
    ELSE CompareWeights(Tail(u), Tail(v))

\* a.localeCompare(b) + 1
LocaleCompare(a, b) ==
    LET p == CompareWeights([i \in DOMAIN a |-> PrimaryWeight(a[i])],
                            [i \in DOMAIN b |-> PrimaryWeight(b[i])])
    IN  IF p # 1 THEN p
        ELSE CompareWeights([i \in DOMAIN a |-> CaseWeight(a[i])],
                            [i \in DOMAIN b |-> CaseWeight(b[i])])

\* The comparator (a, b) => a[key].localeCompare(b[key]) answers > 0.
ComesAfter(a, b, key) == LocaleCompare(a[key], b[key]) = 2

(***************************************************************************)
(* Array.prototype.sort with that comparator: a stable sort.               *)
(***************************************************************************)
RECURSIVE InsertSorted(_, _, _)
InsertSorted(sorted, x, key) ==
    IF sorted = <<>> THEN <<x>>
    ELSE IF ComesAfter(sorted[Len(sorted)], x, key)
         THEN Append(InsertSorted(SubSeq(sorted, 1, Len(sorted) - 1), x, key),
                     sorted[Len(sorted)])
         ELSE Append(sorted, x)

RECURSIVE SortBy(_, _)
SortBy(arr, key) ==
    IF arr = <<>> THEN <<>>
    ELSE InsertSorted(SortBy(SubSeq(arr, 1, Len(arr) - 1), key), arr[Len(arr)], key)

(***************************************************************************)
(* JSON values.  Undefined is the value of an absent key; a string value   *)
(* of isUnilateral is written with its quotes, a boolean without.          *)
(***************************************************************************)
Undefined == "undefined"
StrTrue == "'true'"
StrFalse == "'false'"
BoolTrue == "true"
BoolFalse == "false"

\* item[key] of a key holding a scalar (imageUrl, isUnilateral)
Field(item, key) == IF key \in DOMAIN item THEN item[key] ELSE Undefined

\* item[key] of a key holding a string (id, name): an absent key is falsy like ''
StrField(item, key) == IF key \in DOMAIN item THEN item[key] ELSE <<>>

\* item[key]?.forEach(...): the elements of an array that may be absent
Elements(item, key) == IF key \in DOMAIN item THEN item[key] ELSE <<>>

\* JSON.parse(JSON.stringify(node)) of a node of the three nested levels: a key
\* whose value is undefined (imageUrl) is not written.
RECURSIVE JsonNode(_)
JsonNode(node) ==
    LET keys == IF Field(node, "imageUrl") = Undefined
                THEN DOMAIN node \ {"imageUrl"}
                ELSE DOMAIN node
    IN  [k \in keys |->
            IF k \in {"subVariations", "executionTypes"}
            THEN [i \in DOMAIN node[k] |-> JsonNode(node[k][i])]
            ELSE node[k]]

JsonExercise(ex) ==
    [k \in DOMAIN ex |->
        IF k = "variations"
        THEN [i \in DOMAIN ex[k] |-> JsonNode(ex[k][i])]
        ELSE ex[k]]

\* JSON.parse(JSON.stringify(exerciseData, null, 2)): what the store holds and
\* the next fetch returns.
JsonRoundTrip(doc) ==
    [g \in DOMAIN doc |->
        [group |-> doc[g].group,
         items |-> [i \in DOMAIN doc[g].items |-> JsonExercise(doc[g].items[i])]]]

(***************************************************************************)
(* processVariations (src/server.js 210-239).  The levels' names:          *)
(***************************************************************************)
LevelVariation == "Variacion"
LevelSubVariation == "Sub-Variacion"
LevelExecutionType == "Tipo Ejecucion"

\* The three errors processVariations throws.
InvalidId == "InvalidId"
EmptyName == "EmptyName"
DuplicateId == "DuplicateId"
NoError == "none"

\* A variant of MapIsUnilateral with a bug: the comparison is negated.
MapIsUnilateralNegated(value) == IF value # StrTrue THEN BoolTrue ELSE BoolFalse

\* isUnilateral: item.isUnilateral === 'true'
MapIsUnilateral(value) == IF value = StrTrue THEN BoolTrue ELSE BoolFalse

\* imageUrl: item.imageUrl || undefined
MapImageUrl(value) == IF value \in {Undefined, ""} THEN Undefined ELSE value

\* allIds.has(itemId) || idsInLevel.has(itemId)
IsDuplicateId(itemId, allIds, idsInLevel) == itemId \in allIds \/ itemId \in idsInLevel

\* A variant of ItemError with a bug: the name is not checked.
ItemErrorNameUnchecked(itemId, itemName, allIds, idsInLevel) ==
    IF ~Truthy(itemId) \/ ~TestIdPattern(itemId) THEN InvalidId
    ELSE IF itemId \in allIds \/ itemId \in idsInLevel THEN DuplicateId
    ELSE NoError

\* A variant of ItemError with a bug: the name is checked before the id.
ItemErrorNameFirst(itemId, itemName, allIds, idsInLevel) ==
    IF ~Truthy(itemName) THEN EmptyName
    ELSE IF ~Truthy(itemId) \/ ~TestIdPattern(itemId) THEN InvalidId
    ELSE IF itemId \in allIds \/ itemId \in idsInLevel THEN DuplicateId
    ELSE NoError

\* The first rule the item breaks, in the order of the three throw statements.
ItemError(itemId, itemName, allIds, idsInLevel) ==
    IF ~Truthy(itemId) \/ ~TestIdPattern(itemId) THEN InvalidId
    ELSE IF ~Truthy(itemName) THEN EmptyName
    ELSE IF IsDuplicateId(itemId, allIds, idsInLevel) THEN DuplicateId
    ELSE NoError

\* The key of the next level's array, "" at the last level.
ChildKey(levelName) ==
    IF levelName = LevelVariation THEN "subVariations"
    ELSE IF levelName = LevelSubVariation THEN "executionTypes"
    ELSE ""

ChildLevel(levelName) ==
    IF levelName = LevelVariation THEN LevelSubVariation ELSE LevelExecutionType

\* processedItem, with the next level's array when it is not empty
ProcessedItem(itemId, itemName, item, childKey, children) ==
    LET base == [id |-> itemId,
                 name |-> itemName,
                 imageUrl |-> MapImageUrl(Field(item, "imageUrl")),
                 isUnilateral |-> MapIsUnilateral(Field(item, "isUnilateral"))]
    IN  IF children = <<>> THEN base
        ELSE IF childKey = "subVariations"
             THEN [id |-> base.id, name |-> base.name, imageUrl |-> base.imageUrl,
                   isUnilateral |-> base.isUnilateral, subVariations |-> children]
             ELSE [id |-> base.id, name |-> base.name, imageUrl |-> base.imageUrl,
                   isUnilateral |-> base.isUnilateral, executionTypes |-> children]

(***************************************************************************)
(* processVariations answers [error, level, items, allIds]: the error      *)
(* thrown (NoError when it returns) with the level that threw it, the      *)
(* array returned, and the set allIds as the call leaves it.               *)
(***************************************************************************)
RECURSIVE ProcessFrom(_, _, _, _, _, _)
ProcessVariations(levelData, levelName, allIds) ==
    ProcessFrom(levelData, 1, levelName, allIds, {}, <<>>)

\* The callback of levelData.map for the items index, index + 1, ...
ProcessFrom(levelData, index, levelName, allIds, idsInLevel, done) ==
    IF index > Len(levelData)
    THEN [error |-> NoError, level |-> levelName, items |-> done, allIds |-> allIds]
    ELSE
      LET item == levelData[index]
          itemId == Trim(StrField(item, "id"))
          itemName == Trim(StrField(item, "name"))
          err == ItemError(itemId, itemName, allIds, idsInLevel)
          childKey == ChildKey(levelName)
          recurse == childKey # "" /\ childKey \in DOMAIN item
          sub == IF recurse
                 THEN ProcessVariations(item[childKey], ChildLevel(levelName),
                                        allIds \cup {itemId})
                 ELSE [error |-> NoError, level |-> levelName, items |-> <<>>,
                       allIds |-> allIds \cup {itemId}]
      IN  IF err # NoError
          THEN [error |-> err, level |-> levelName, items |-> <<>>, allIds |-> allIds]
          ELSE IF sub.error # NoError
          THEN [error |-> sub.error, level |-> sub.level, items |-> <<>>,
                allIds |-> sub.allIds]
          ELSE ProcessFrom(levelData, index + 1, levelName, sub.allIds,
                           idsInLevel \cup {itemId},
                           Append(done, ProcessedItem(itemId, itemName, item,
                                                      childKey, sub.items)))

(***************************************************************************)
(* The store: the file of the GitHub repository.  Its sha is the hash of   *)
(* its content, a value that two contents share only when they are equal.  *)
(***************************************************************************)
\* fileData.sha
ShaOf(doc) == <<doc>>

\* An absent or empty fileSha.
NoSha == <<>>

\* getExerciseDataFromGithub: { exercises: JSON.parse(content), sha: fileData.sha }
GetExerciseData(stored) == [exercises |-> stored, sha |-> ShaOf(stored)]

(***************************************************************************)
(* The responses of app.post('/save-exercise').                            *)
(***************************************************************************)
StatusOk == 200
StatusBadRequest == 400
StatusConflict == 409
StatusServerError == 500

\* if (!group || !baseId || !baseName || !/^[a-z0-9-]+$/.test(baseId) || !fileSha)
BasicValidationFails(body) ==
    \/ ~Truthy(body.group)
    \/ ~Truthy(body.baseId)
    \/ ~Truthy(body.baseName)
    \/ ~TestIdPattern(body.baseId)
    \/ body.fileSha = NoSha

\* A variant of ShaConflict with a bug: the comparison is left out.
ShaConflictSkipped(currentSha, fileSha) == FALSE

\* if (currentSha !== fileSha)
ShaConflict(currentSha, fileSha) == currentSha # fileSha

\* The ids of a list of nodes and of the levels below them.
RECURSIVE NodeIds(_)
NodeIds(nodes) ==
    UNION {{nodes[i].id}
             \cup NodeIds(Elements(nodes[i], "subVariations"))
             \cup NodeIds(Elements(nodes[i], "executionTypes")) : i \in DOMAIN nodes}

\* The ids allIds receives from one exercise of the document. 
ExerciseIds(item) == {item.id} \cup NodeIds(Elements(item, "variations"))

\* if (!editMode || item.id !== originalBaseId): the exercise's ids enter allIds
CountsForUniqueness(item, editMode, originalBaseId) ==
    editMode = "" \/ item.id # originalBaseId

\* allIds, as the forEach over the fetched document leaves it
AllIdsOf(doc, editMode, originalBaseId) ==
    UNION {UNION {IF CountsForUniqueness(doc[g].items[i], editMode, originalBaseId)
                  THEN ExerciseIds(doc[g].items[i])
                  ELSE {} : i \in DOMAIN doc[g].items} : g \in DOMAIN doc}

\* exerciseObject: variations deleted when empty, else sorted by name
ExerciseObject(baseId, baseName, processedVariations) ==
    IF processedVariations = <<>>
    THEN [id |-> baseId, name |-> baseName]
    ELSE [id |-> baseId, name |-> baseName,
          variations |-> SortBy(processedVariations, "name")]

\* if (editMode === 'true' && originalBaseId)
IsEditRequest(body) == body.editMode = "true" /\ Truthy(body.originalBaseId)

\* A variant of FindItemIndex with a bug: an item also matches by the id of a node
\* of its levels.
FindItemIndexNested(items, id) ==
    IF \E i \in DOMAIN items : id \in ExerciseIds(items[i])
    THEN CHOOSE i \in DOMAIN items :
            id \in ExerciseIds(items[i]) /\ \A j \in 1..(i - 1) : id \notin ExerciseIds(items[j])
    ELSE 0

\* items.findIndex(item => item.id === id), 0 for -1
FindItemIndex(items, id) ==
    IF \E i \in DOMAIN items : items[i].id = id
    THEN CHOOSE i \in DOMAIN items :
            items[i].id = id /\ \A j \in 1..(i - 1) : items[j].id # id
    ELSE 0

\* The first group holding an item with that id, 0 when none does (foundAndUpdated false).
FindGroupOfItem(doc, id) ==
    IF \E g \in DOMAIN doc : FindItemIndex(doc[g].items, id) # 0
    THEN CHOOSE g \in DOMAIN doc :
            /\ FindItemIndex(doc[g].items, id) # 0
            /\ \A h \in 1..(g - 1) : FindItemIndex(doc[h].items, id) = 0
    ELSE 0

\* A variant of ReplaceExercise with a bug: the first item of the group found is
\* replaced, not the item found.
ReplaceFirstOfGroup(doc, originalBaseId, exerciseObject) ==
    LET g == FindGroupOfItem(doc, originalBaseId)
    IN  [doc EXCEPT ![g].items[1] = exerciseObject]

\* MODO EDICION: group.items[itemIndex] = exerciseObject in the first group found
ReplaceExercise(doc, originalBaseId, exerciseObject) ==
    LET g == FindGroupOfItem(doc, originalBaseId)
        i == FindItemIndex(doc[g].items, originalBaseId)
    IN  [doc EXCEPT ![g].items[i] = exerciseObject]

\* A variant of FindGroupIndex with a bug: the names are compared as they are written.
FindGroupIndexCaseSensitive(doc, group) ==
    IF \E g \in DOMAIN doc : doc[g].group = group
    THEN CHOOSE g \in DOMAIN doc :
            doc[g].group = group /\ \A h \in 1..(g - 1) : doc[h].group # group
    ELSE 0

\* findIndex(g => g.group.toLowerCase() === group.toLowerCase()), 0 for -1
FindGroupIndex(doc, group) ==
    IF \E g \in DOMAIN doc : ToLowerCase(doc[g].group) = ToLowerCase(group)
    THEN CHOOSE g \in DOMAIN doc :
            /\ ToLowerCase(doc[g].group) = ToLowerCase(group)
            /\ \A h \in 1..(g - 1) : ToLowerCase(doc[h].group) # ToLowerCase(group)
    ELSE 0

\* MODO ANADIR NUEVO: push the group when it is new, push the exercise to the group
AddExercise(doc, group, exerciseObject) ==
    LET found == FindGroupIndex(doc, group)
        withGroup == IF found = 0 THEN Append(doc, [group |-> group, items |-> <<>>])
                     ELSE doc
        groupIndex == IF found = 0 THEN Len(withGroup) ELSE found
    IN  [withGroup EXCEPT ![groupIndex].items = Append(@, exerciseObject)]

\* A variant of SortDocument with a bug: the items of the groups are not sorted.
SortGroupsOnly(doc) == SortBy(doc, "group")

\* currentExerciseData.sort(...); currentExerciseData.forEach(g => g.items.sort(...))
SortDocument(doc) ==
    LET groups == SortBy(doc, "group")
    IN  [g \in DOMAIN groups |->
            [group |-> groups[g].group, items |-> SortBy(groups[g].items, "name")]]

(***************************************************************************)
(* The handler of /save-exercise from the answer of the fetch to its       *)
(* response or to its call of createOrUpdateFileContents.  It answers      *)
(* [status, outcome, content, sha, error]: status 0 and outcome "commit"   *)
(* when the commit is called with content and sha.                         *)
(***************************************************************************)
Respond(status, outcome, error) ==
    [status |-> status, outcome |-> outcome, content |-> <<>>, sha |-> NoSha,
     error |-> error]

SaveExercise(body, fetched) ==
    LET allIds == AllIdsOf(fetched.exercises, body.editMode, body.originalBaseId)
        processed == ProcessVariations(body.variations, LevelVariation, allIds)
        exerciseObject == ExerciseObject(body.baseId, body.baseName, processed.items)
        merged == IF IsEditRequest(body)
                  THEN ReplaceExercise(fetched.exercises, body.originalBaseId,
                                       exerciseObject)
                  ELSE AddExercise(fetched.exercises, body.group, exerciseObject)
    IN  IF ShaConflict(fetched.sha, body.fileSha)
        THEN Respond(StatusConflict, "conflict", NoError)
        ELSE IF body.baseId \in allIds
        THEN Respond(StatusBadRequest, "duplicate-base", DuplicateId)
        ELSE IF processed.error # NoError
        THEN Respond(StatusBadRequest, "validation", processed.error)
        ELSE IF IsEditRequest(body)
                /\ FindGroupOfItem(fetched.exercises, body.originalBaseId) = 0
        THEN Respond(StatusServerError, "not-found", NoError)
        ELSE [status |-> 0, outcome |-> "commit",
              content |-> JsonRoundTrip(SortDocument(merged)),
              sha |-> fetched.sha,
              error |-> NoError]

(***************************************************************************)
(* The state: the file in the repository, for every client of the editor   *)
(* the sha its page loaded and its request to /save-exercise while the     *)
(* handler runs, and the last response sent.                               *)
(***************************************************************************)
VARIABLES
    storeDoc,   \* the exercise document the repository holds (parsed JSON)
    loaded,     \* per client: the sha GET /api/exercises gave its page, or NoSha
    pc,         \* per client: "idle", or "fetching", "committing" (the awaits)
    req,        \* per client: req.body of the request its handler runs
    fetched,    \* per client: what getExerciseDataFromGithub answered the handler
    call,       \* per client: the handler's result, with the commit it calls
    last,       \* the last response: its request, what it fetched, its status
    sent,       \* the requests received so far
    handler     \* one run of the handler alone on a document (SpecHandler)

protocolVars == <<storeDoc, loaded, pc, req, fetched, call, last, sent>>

vars == <<storeDoc, loaded, pc, req, fetched, call, last, sent, handler>>

Clients == {"c1", "c2"}

(***************************************************************************)
(* The documents the repository may hold at first and the forms the        *)
(* clients submit.                                                         *)
(***************************************************************************)
Exercise(id, name) == [id |-> id, name |-> name]

Node(id, name) == [id |-> id, name |-> name]

\* One exercise in one group.
DocSingle ==
    << [group |-> <<"g">>, items |-> << Exercise(<<"a">>, <<"n">>) >>] >>

\* Two groups, written by hand in no order; "b" has a variation with a sub-variation.
DocUnsorted ==
    << [group |-> <<"h">>,
        items |-> << [id |-> <<"b">>, name |-> <<"q">>,
                      variations |-> << [id |-> <<"v">>, name |-> <<"v">>,
                                         isUnilateral |-> BoolFalse,
                                         subVariations |->
                                            << [id |-> <<"s">>, name |-> <<"s">>,
                                                isUnilateral |-> BoolTrue] >>] >>],
                     Exercise(<<"a">>, <<"n">>) >>],
       [group |-> <<"g">>, items |-> << Exercise(<<"c">>, <<"B">>) >>] >>

InitDocs == {<<>>, DocSingle, DocUnsorted}

Body(editMode, originalBaseId, group, baseId, baseName, variations) ==
    [editMode |-> editMode, originalBaseId |-> originalBaseId, fileSha |-> NoSha,
     group |-> group, baseId |-> baseId, baseName |-> baseName,
     variations |-> variations]

NoBody == Body("", <<>>, <<>>, <<>>, <<>>, <<>>)

\* A variation " w " named " W " with one sub-variation and one execution type.
DeepVariation ==
    [id |-> <<" ", "w", " ">>, name |-> <<" ", "W">>, isUnilateral |-> StrTrue,
     imageUrl |-> "w.png",
     subVariations |-> << [id |-> <<"x">>, name |-> <<"x">>,
                           executionTypes |-> << Node(<<"y">>, <<"y">>) >>] >>]

Bodies ==
    { \* Create in the group "g" written "G", and in a new group
      Body("", <<>>, <<"G">>, <<"d">>, <<"m">>, <<>>),
      Body("", <<>>, <<"f">>, <<"e">>, <<"A">>, << DeepVariation >>),
      \* Create of an id the document may hold, named with white space only
      Body("", <<>>, <<"g">>, <<"a">>, <<" ">>, <<>>),
      \* Update of "a": renamed, and with a new id and another group
      Body("true", <<"a">>, <<"g">>, <<"a">>, <<"r">>, << Node(<<"t">>, <<"t">>) >>),
      Body("true", <<"a">>, <<"k">>, <<"z">>, <<"C">>, <<>>),
      \* Update of an id no exercise has, and that a variation of the document may have
      Body("true", <<"v">>, <<"f">>, <<"e">>, <<"o">>, <<>>),
      \* editMode without originalBaseId, and an editMode that is not 'true'
      Body("true", <<>>, <<"g">>, <<"j">>, <<"j">>, <<>>),
      Body("false", <<"a">>, <<"g">>, <<"a">>, <<"n">>, <<>>),
      \* A variation with the id of its own exercise
      Body("", <<>>, <<"g">>, <<"u">>, <<"u">>, << Node(<<"u">>, <<"u">>) >>),
      \* Submissions the validation rejects
      Body("", <<>>, <<"g">>, <<"I">>, <<"i">>, <<>>),
      Body("", <<>>, <<"g">>, <<"i">>, <<"i">>,
           << Node(<<"l">>, <<"l">>), Node(<<"l", "!">>, <<"l">>) >>) }

NoCall == Respond(0, "none", NoError)

\* The response to the request body of client c whose handler fetched the document
\* fetchedDoc (the empty one when it fetched nothing) and ended with result.
Response(c, body, fetchedDoc, result, statusCode) ==
    [client |-> c, body |-> body, fetched |-> fetchedDoc, outcome |-> result.outcome,
     error |-> result.error, content |-> result.content, status |-> statusCode]

\* processVariations has not run.
NoResult == [error |-> NoError, level |-> LevelVariation, items |-> <<>>, allIds |-> {}]

NoRun == [pc |-> "none", doc |-> <<>>, body |-> NoBody, result |-> NoCall,
          norm |-> NoResult, renorm |-> NoResult]

Init ==
    /\ storeDoc \in InitDocs
    /\ loaded = [c \in Clients |-> NoSha]
    /\ pc = [c \in Clients |-> "idle"]
    /\ req = [c \in Clients |-> NoBody]
    /\ fetched = [c \in Clients |-> <<>>]
    /\ call = [c \in Clients |-> NoCall]
    /\ last = Response("", NoBody, <<>>, NoCall, 0)
    /\ sent = 0
    /\ handler = NoRun

\* A variant of Finish with a bug: the handler fetches the document again.
FinishByRetry(c) ==
    /\ pc' = [pc EXCEPT ![c] = "fetching"]
    /\ req' = req
    /\ fetched' = [fetched EXCEPT ![c] = <<>>]
    /\ call' = [call EXCEPT ![c] = NoCall]

\* The handler of client c has responded: its request is over.
Finish(c) ==
    /\ pc' = [pc EXCEPT ![c] = "idle"]
    /\ req' = [req EXCEPT ![c] = NoBody]
    /\ fetched' = [fetched EXCEPT ![c] = <<>>]
    /\ call' = [call EXCEPT ![c] = NoCall]

(***************************************************************************)
(* GET /api/exercises (153-161): the page of client c loads the document   *)
(* and its sha.  (A failed load answers 500 and changes nothing.)          *)
(***************************************************************************)
LoadPage(c) ==
    /\ pc[c] = "idle"
    /\ loaded[c] # GetExerciseData(storeDoc).sha
    /\ loaded' = [loaded EXCEPT ![c] = GetExerciseData(storeDoc).sha]
    /\ UNCHANGED <<storeDoc, pc, req, fetched, call, last, sent, handler>>

(***************************************************************************)
(* POST /save-exercise (169-180): the page of client c submits its form    *)
(* with the sha it loaded (none when it loaded nothing) and is left; the   *)
(* basic validation answers 400 or the handler calls                       *)
(* getExerciseDataFromGithub and waits.                                    *)
(***************************************************************************)
Receive(c, body) ==
    /\ pc[c] = "idle"
    /\ sent < MaxRequests
    /\ sent' = sent + 1
    /\ loaded' = [loaded EXCEPT ![c] = NoSha]
    /\ IF BasicValidationFails(body)
       THEN /\ last' = Response(c, body, <<>>,
                                Respond(StatusBadRequest, "basic", NoError),
                                StatusBadRequest)
            /\ UNCHANGED <<pc, req, fetched, call>>
       ELSE /\ pc' = [pc EXCEPT ![c] = "fetching"]
            /\ req' = [req EXCEPT ![c] = body]
            /\ UNCHANGED <<fetched, call, last>>
    /\ UNCHANGED <<storeDoc, handler>>

(***************************************************************************)
(* The fetch answers (180-308): the handler checks the sha, validates,     *)
(* merges and sorts, and responds or calls createOrUpdateFileContents.     *)
(***************************************************************************)
Fetch(c) ==
    /\ pc[c] = "fetching"
    /\ LET result == SaveExercise(req[c], GetExerciseData(storeDoc))
       IN  IF result.outcome = "commit"
           THEN /\ pc' = [pc EXCEPT ![c] = "committing"]
                /\ fetched' = [fetched EXCEPT ![c] = storeDoc]
                /\ call' = [call EXCEPT ![c] = result]
                /\ UNCHANGED <<req, last>>
           ELSE /\ last' = Response(c, req[c], storeDoc, result, result.status)
                /\ Finish(c)
    /\ UNCHANGED <<storeDoc, loaded, sent, handler>>

\* octokit.repos.getContent throws (322-325): the catch answers 500.
FetchError(c) ==
    /\ pc[c] = "fetching"
    /\ last' = Response(c, req[c], <<>>,
                        Respond(StatusServerError, "fetch-error", NoError),
                        StatusServerError)
    /\ Finish(c)
    /\ UNCHANGED <<storeDoc, loaded, sent, handler>>

(***************************************************************************)
(* createOrUpdateFileContents (301-325): the repository writes the content *)
(* when the sha of the call is the sha of its file and the handler sends   *)
(* the success page; else the call throws and the catch answers 500.       *)
(***************************************************************************)
StoreAccepts(stored, sha) == ShaOf(stored) = sha

\* A variant of CommitSha with a bug: the sha of the file is read again when the
\* commit is made.
CommitShaReadAgain(currentSha, liveSha) == liveSha

\* sha: currentSha (305): the sha the fetch of this request answered, whatever
\* the sha of the file is when the call is made
CommitSha(currentSha, liveSha) == currentSha

\* res.send of the success page (311)
SuccessStatus == StatusOk

\* A variant of CatchStatus with a bug: the catch sends the success page.
CatchSendsSuccess(outcome) == StatusOk

\* res.status(500) of the catch (324), whatever was thrown
CatchStatus(outcome) == StatusServerError

CommitApplied(c) ==
    /\ pc[c] = "committing"
    /\ StoreAccepts(storeDoc, CommitSha(call[c].sha, ShaOf(storeDoc)))
    /\ storeDoc' = call[c].content
    /\ last' = Response(c, req[c], fetched[c],
                        [call[c] EXCEPT !.outcome = "committed"], SuccessStatus)
    /\ Finish(c)
    /\ UNCHANGED <<loaded, sent, handler>>

CommitRejected(c) ==
    /\ pc[c] = "committing"
    /\ ~StoreAccepts(storeDoc, CommitSha(call[c].sha, ShaOf(storeDoc)))
    /\ last' = Response(c, req[c], fetched[c],
                        [call[c] EXCEPT !.outcome = "commit-conflict"],
                        CatchStatus("commit-conflict"))
    /\ Finish(c)
    /\ UNCHANGED <<storeDoc, loaded, sent, handler>>

\* The call fails before the repository writes (network, credentials).
CommitError(c) ==
    /\ pc[c] = "committing"
    /\ last' = Response(c, req[c], fetched[c],
                        [call[c] EXCEPT !.outcome = "commit-error"],
                        CatchStatus("commit-error"))
    /\ Finish(c)
    /\ UNCHANGED <<storeDoc, loaded, sent, handler>>

Next ==
    \E c \in Clients :
        \/ LoadPage(c)
        \/ \E b \in Bodies : Receive(c, [b EXCEPT !.fileSha = loaded[c]])
        \/ Fetch(c)
        \/ FetchError(c)
        \/ CommitApplied(c)
        \/ CommitRejected(c)
        \/ CommitError(c)

Spec == Init /\ [][Next]_vars

(***************************************************************************)
(* The handler alone, on every submitted tree of a few nodes: the request  *)
(* presents the sha of the document, so that the handler reaches the       *)
(* validation.                                                             *)
(***************************************************************************)
\* The nodes of a submitted tree, all levels together.
MaxNodes == 3

\* What a node of the form holds beside the next level: ids with white space around
\* them, of the wrong pattern, of the document ("a") and of the exercise ("d"), names
\* of white space only, alone and with an id of the wrong pattern.
Labels ==
    { [id |-> <<"b">>, name |-> <<"n">>],
      [id |-> <<" ", "b", " ">>, name |-> <<" ", "m", " ">>, isUnilateral |-> StrTrue,
       imageUrl |-> "b.png"],
      [id |-> <<"c">>, name |-> <<"n">>, isUnilateral |-> StrFalse, imageUrl |-> ""],
      [id |-> <<"C">>, name |-> <<"n">>],
      [id |-> <<"e">>, name |-> <<" ">>],
      [id |-> <<"E">>, name |-> <<" ">>],
      [id |-> <<"a">>, name |-> <<"A">>],
      [id |-> <<"d">>, name |-> <<"k">>, isUnilateral |-> StrTrue] }

LastLevel == 3

ChildKeyOfLevel(level) == IF level = 1 THEN "subVariations" ELSE "executionTypes"

\* The arrays of nodes of a level (1: variations) that hold n nodes with the levels below.
RECURSIVE Forests(_, _)
Forests(level, n) ==
    IF n = 0 THEN {<<>>}
    ELSE UNION {
           { <<IF kids = <<>> THEN label
               ELSE label @@ (ChildKeyOfLevel(level) :> kids)>> \o rest :
               label \in Labels,
               kids \in (IF level < LastLevel THEN Forests(level + 1, k - 1)
                         ELSE IF k = 1 THEN {<<>>} ELSE {}),
               rest \in Forests(level, n - k) } : k \in 1..n }

HandlerTrees == UNION {Forests(1, n) : n \in 0..MaxNodes}

HandlerDocs == {DocSingle, DocUnsorted}

\* A Create of "d" or "a" and an Update of "a" to "d" or "a", with every tree.
HandlerBodies ==
    { [Body(edit[1], edit[2], <<"g">>, baseId, <<"m">>, tree)
         EXCEPT !.fileSha = ShaOf(doc)] :
        edit \in {<<"", <<>> >>, <<"true", <<"a">> >>},
        baseId \in {<<"a">>, <<"d">>},
        tree \in HandlerTrees,
        doc \in HandlerDocs }

InitHandler ==
    /\ storeDoc = <<>>
    /\ loaded = [c \in Clients |-> NoSha]
    /\ pc = [c \in Clients |-> "idle"]
    /\ req = [c \in Clients |-> NoBody]
    /\ fetched = [c \in Clients |-> <<>>]
    /\ call = [c \in Clients |-> NoCall]
    /\ last = Response("", NoBody, <<>>, NoCall, 0)
    /\ sent = 0
    /\ \E doc \in HandlerDocs, body \in HandlerBodies :
          /\ body.fileSha = ShaOf(doc)
          /\ handler = [NoRun EXCEPT !.pc = "received", !.doc = doc, !.body = body]

\* app.post('/save-exercise') from the request to its response or its commit call.
HandleRequest(body, data) ==
    IF BasicValidationFails(body)
    THEN Respond(StatusBadRequest, "basic", NoError)
    ELSE SaveExercise(body, data)

\* The handler runs on the document; norm is what its processVariations call answers.
Handle ==
    /\ handler.pc = "received"
    /\ handler' =
          [handler EXCEPT
              !.pc = "handled",
              !.result = HandleRequest(handler.body, GetExerciseData(handler.doc)),
              !.norm = ProcessVariations(handler.body.variations, LevelVariation,
                                         AllIdsOf(handler.doc, handler.body.editMode,
                                                  handler.body.originalBaseId))]
    /\ UNCHANGED protocolVars

\* processVariations on the tree it returned, written as JSON and read back, with
\* the ids the first call started from.
Renormalize ==
    /\ handler.pc = "handled"
    /\ handler.norm.error = NoError
    /\ handler' =
          [handler EXCEPT
              !.pc = "renormalized",
              !.renorm = ProcessVariations(
                            [i \in DOMAIN handler.norm.items |->
                                JsonNode(handler.norm.items[i])],
                            LevelVariation,
                            AllIdsOf(handler.doc, handler.body.editMode,
                                     handler.body.originalBaseId))]
    /\ UNCHANGED protocolVars

NextHandler == Handle \/ Renormalize

SpecHandler == InitHandler /\ [][NextHandler]_vars

(***************************************************************************)
(* The older route, app.post('/add-exercise') (27-113): it appends an      *)
(* exercise without variations to its group, sorts the groups, sorts the   *)
(* items of exerciseData[groupIndex] and commits with the sha it fetched.  *)
(***************************************************************************)
\* if (!group || !baseId || !baseName || !/^[a-z0-9-]+$/.test(baseId))
AddBasicValidationFails(body) ==
    \/ ~Truthy(body.group)
    \/ ~Truthy(body.baseId)
    \/ ~Truthy(body.baseName)
    \/ ~TestIdPattern(body.baseId)

\* exerciseData.some(g => g.items.some(item => item.id === baseId))
IdExists(doc, baseId) ==
    \E g \in DOMAIN doc : \E i \in DOMAIN doc[g].items : doc[g].items[i].id = baseId

\* { id: baseId, name: baseName, variations: [] }
NewExercise(baseId, baseName) == [id |-> baseId, name |-> baseName, variations |-> <<>>]

\* exerciseData.sort(...); exerciseData[groupIndex].items.sort(...), groupIndex being
\* the index the group had before the groups were sorted
SortAfterInsert(doc, groupIndex) ==
    LET groups == SortBy(doc, "group")
    IN  [groups EXCEPT ![groupIndex].items = SortBy(@, "name")]

\* The handler from the answer of getContent to its response or its commit call.
AddExerciseRoute(body, data) ==
    LET found == FindGroupIndex(data.exercises, body.group)
        withGroup == IF found = 0
                     THEN Append(data.exercises, [group |-> body.group, items |-> <<>>])
                     ELSE data.exercises
        groupIndex == IF found = 0 THEN Len(withGroup) ELSE found
        pushed == [withGroup EXCEPT
                      ![groupIndex].items =
                          Append(@, NewExercise(body.baseId, body.baseName))]
    IN  IF AddBasicValidationFails(body)
        THEN Respond(StatusBadRequest, "basic", NoError)
        ELSE IF IdExists(withGroup, body.baseId)
        THEN Respond(StatusBadRequest, "duplicate-base", DuplicateId)
        ELSE [status |-> 0, outcome |-> "commit",
              content |-> JsonRoundTrip(SortAfterInsert(pushed, groupIndex)),
              sha |-> data.sha,
              error |-> NoError]

\* The groups of a document the route is given.
MaxGroups == 2

AddGroupNames == {<<"g">>, <<"h">>, <<"B">>}

\* The items a group named name may hold: none, one, two in the order of their
\* names, two in the other order.  Their ids begin with the group's name.
AddItemLists(name) ==
    LET first == Exercise(name \o <<"1">>, <<"m">>)
        second == Exercise(name \o <<"2">>, <<"q">>)
    IN  {<<>>, <<second>>, <<first, second>>, <<second, first>>}

RECURSIVE AddDocsOf(_, _)
AddDocsOf(n, names) ==
    IF n = 0 THEN {<<>>}
    ELSE UNION {{<<[group |-> name, items |-> items]>> \o rest :
                    items \in AddItemLists(name),
                    rest \in AddDocsOf(n - 1, names \ {name})} : name \in names}

AddDocs == UNION {AddDocsOf(n, AddGroupNames) : n \in 0..MaxGroups}

\* The forms: a group of the document written in its case or another, a new group;
\* a new id, an id of the document, an id of the wrong pattern.
AddBodies ==
    {Body("", <<>>, group, baseId, baseName, <<>>) :
        group \in {<<"g">>, <<"H">>, <<"k">>},
        baseId \in {<<"x">>, <<"g", "1">>, <<"X">>},
        baseName \in {<<"a">>, <<"p">>, <<"z">>}}

InitAdd ==
    /\ storeDoc \in AddDocs
    /\ loaded = [c \in Clients |-> NoSha]
    /\ pc = [c \in Clients |-> "idle"]
    /\ req = [c \in Clients |-> NoBody]
    /\ fetched = [c \in Clients |-> <<>>]
    /\ call = [c \in Clients |-> NoCall]
    /\ last = Response("", NoBody, <<>>, NoCall, 0)
    /\ sent = 0
    /\ \E body \in AddBodies :
          handler = [NoRun EXCEPT !.pc = "received", !.doc = storeDoc, !.body = body]

\* The route runs on the document fetched and responds 400 or calls the commit.
AddHandle ==
    /\ handler.pc = "received"
    /\ handler' = [handler EXCEPT
                      !.pc = "handled",
                      !.result = AddExerciseRoute(handler.body,
                                                  GetExerciseData(handler.doc))]
    /\ UNCHANGED protocolVars

\* createOrUpdateFileContents (76-84) with sha: fileData.sha; the success page (88).
AddCommit ==
    /\ handler.pc = "handled"
    /\ handler.result.outcome = "commit"
    /\ StoreAccepts(storeDoc, handler.result.sha)
    /\ storeDoc' = handler.result.content
    /\ handler' = [handler EXCEPT !.pc = "committed",
                                  !.result.status = SuccessStatus]
    /\ UNCHANGED <<loaded, pc, req, fetched, call, last, sent>>

NextAdd == AddHandle \/ AddCommit

SpecAdd == InitAdd /\ [][NextAdd]_vars

(***************************************************************************)
(* What the properties speak of.                                           *)
(***************************************************************************)
\* The top-level exercises of a document, group after group.
RECURSIVE AllItems(_)
AllItems(doc) ==
    IF doc = <<>> THEN <<>> ELSE AllItems(SubSeq(doc, 1, Len(doc) - 1)) \o doc[Len(doc)].items

\* The ids of a list of nodes and of the levels below them, one entry per occurrence.
RECURSIVE NodeIdList(_)
NodeIdList(nodes) ==
    IF nodes = <<>> THEN <<>>
    ELSE LET n == nodes[1]
         IN  <<n.id>> \o NodeIdList(Elements(n, "variations"))
                      \o NodeIdList(Elements(n, "subVariations"))
                      \o NodeIdList(Elements(n, "executionTypes"))
                      \o NodeIdList(Tail(nodes))

\* Every id of the four levels occurs once in the document.
IdsDistinct(doc) ==
    LET ids == NodeIdList(AllItems(doc))
    IN  \A i, j \in DOMAIN ids : ids[i] = ids[j] => i = j

\* No element of the array comes after its successor in the order of localeCompare.
IsSortedBy(arr, key) ==
    \A i \in 1..(Len(arr) - 1) : LocaleCompare(arr[i][key], arr[i + 1][key]) # 2

IsSortedDoc(doc) ==
    /\ IsSortedBy(doc, "group")
    /\ \A g \in DOMAIN doc : IsSortedBy(doc[g].items, "name")

\* The groups of the document whose name is that name, case ignored.
GroupsNamed(doc, name) ==
    {g \in DOMAIN doc : ToLowerCase(doc[g].group) = ToLowerCase(name)}

\* The responses sent so far: the requests received whose handler is not waiting.
Responses == sent - Cardinality({c \in Clients : pc[c] # "idle"})

\* The step is the response to a request.
Responds == Responses' = Responses + 1

\* The last response is the success page of a request.
Committed == last.outcome = "committed"

(***************************************************************************)
(* C1: for any interleaving of write requests, the repository applies the  *)
(* commit of a request only if its sha at that moment is the sha the       *)
(* request fetched; so the document it then holds is the transform, by     *)
(* that request, of the document it held just before, and the document     *)
(* changes in no other step.                                               *)
(***************************************************************************)
C1_NoLostUpdate ==
    [][/\ storeDoc' # storeDoc => Responds /\ last'.outcome = "committed"
       /\ Responds /\ last'.outcome = "committed" =>
            /\ ShaOf(storeDoc) = ShaOf(last'.fetched)
            /\ SaveExercise(last'.body, GetExerciseData(storeDoc)).outcome = "commit"
            /\ storeDoc' = SaveExercise(last'.body, GetExerciseData(storeDoc)).content
      ]_vars

\* A request lost the race: another request's commit changed the file between its
\* fetch and its commit, and its own content was not written.
C1_Witness ==
    /\ last.outcome = "commit-conflict"
    /\ storeDoc # last.fetched
    /\ storeDoc # last.content

(***************************************************************************)
(* C2: when the repository's file has the sha T1 and a request presents a  *)
(* fileSha T0 different from T1, the request is answered Conflict (409),   *)
(* the file is unchanged and the request calls no commit.  C2_AnyRequest   *)
(* states it of every request that presents a fileSha; C2_ShaMismatch of   *)
(* the requests whose handler compares the two shas: those that pass the   *)
(* basic validation and whose fetch answers.                               *)
(***************************************************************************)
\* The handler of c decides in this step without having called the commit: at the
\* basic validation, or when its fetch answers or throws.
DecidesBeforeCommit(c) ==
    /\ Responds
    /\ last'.client = c
    /\ pc[c] \in {"idle", "fetching"}

C2_AnyRequest ==
    [][\A c \in Clients :
          /\ DecidesBeforeCommit(c) \/ (pc[c] = "fetching" /\ pc'[c] = "committing")
          /\ (IF pc[c] = "idle" THEN last'.body.fileSha ELSE req[c].fileSha)
                \notin {NoSha, ShaOf(storeDoc)}
          => /\ DecidesBeforeCommit(c)
             /\ last'.status = StatusConflict
             /\ storeDoc' = storeDoc
      ]_vars

C2_ShaMismatch ==
    [][\A c \in Clients :
          /\ pc[c] = "fetching"
          /\ pc'[c] # "fetching"
          /\ ~(Responds /\ last'.outcome = "fetch-error")
          /\ req[c].fileSha # ShaOf(storeDoc)
          => /\ DecidesBeforeCommit(c)
             /\ last'.status = StatusConflict
             /\ last'.outcome = "conflict"
             /\ call'[c] = NoCall
             /\ storeDoc' = storeDoc
      ]_vars

\* A request that presented the sha of an older document was answered 409 and the
\* file is as its handler fetched it.
C2_Witness ==
    /\ last.outcome = "conflict"
    /\ last.status = StatusConflict
    /\ last.body.fileSha \notin {NoSha, ShaOf(last.fetched)}
    /\ storeDoc = last.fetched

(***************************************************************************)
(* C3: a write request that fails on a sha mismatch is answered 409, when  *)
(* the handler finds fileSha different from the fetched sha and also when  *)
(* the repository rejects the commit.                                      *)
(***************************************************************************)
C3_ConflictAnswered409 ==
    last.outcome \in {"conflict", "commit-conflict"} => last.status = StatusConflict

(***************************************************************************)
(* C4: starting from a document whose ids are pairwise distinct, after any *)
(* sequence of successful requests every id of the four levels occurs at   *)
(* most once in the stored document.                                       *)
(***************************************************************************)
C4_IdsStayDistinct == IdsDistinct(storeDoc)

(***************************************************************************)
(* C5: every document a successful request commits has its groups sorted   *)
(* by group name and the items of every group sorted by name, whatever the *)
(* order of the document fetched.                                          *)
(***************************************************************************)
C5_CommittedSorted ==
    /\ \A c \in Clients : pc[c] = "committing" => IsSortedDoc(call[c].content)
    /\ Committed => IsSortedDoc(last.content) /\ IsSortedDoc(storeDoc)

\* A commit of a document fetched with its groups and its items out of order.
C5_Witness ==
    /\ Committed
    /\ ~IsSortedBy(last.fetched, "group")
    /\ \E g \in DOMAIN last.fetched : ~IsSortedBy(last.fetched[g].items, "name")
    /\ storeDoc = last.content

(***************************************************************************)
(* C6: if the validation of any node of the submitted tree fails (empty    *)
(* name, invalid id or duplicate id, at any level and at any position),    *)
(* the request is answered 400 and calls no commit.                        *)
(***************************************************************************)
\* The nodes of a submitted tree in the order of the document, a node before its
\* children and its later siblings, with their level and their trimmed id and name.
RECURSIVE FlatNodes(_, _)
FlatNodes(nodes, level) ==
    IF nodes = <<>> THEN <<>>
    ELSE LET n == nodes[1]
             kids == IF level = 1 THEN Elements(n, "subVariations")
                     ELSE IF level = 2 THEN Elements(n, "executionTypes")
                     ELSE <<>>
         IN  <<[id |-> Trim(StrField(n, "id")), name |-> Trim(StrField(n, "name")),
                level |-> level]>>
                \o FlatNodes(kids, level + 1) \o FlatNodes(Tail(nodes), level)

\* The node i of the list breaks a rule: its id is not of the pattern, its name is
\* empty, or its id is one of ids or of an earlier node.
Defective(nodes, i, ids) ==
    \/ ~TestIdPattern(nodes[i].id)
    \/ nodes[i].name = <<>>
    \/ nodes[i].id \in ids
    \/ \E j \in 1..(i - 1) : nodes[j].id = nodes[i].id

\* The ids of the fetched document the submission may not use.
TakenIds(run) == AllIdsOf(run.doc, run.body.editMode, run.body.originalBaseId)

C6_ValidationAborts ==
    LET nodes == FlatNodes(handler.body.variations, 1)
    IN  /\ handler.pc # "received"
        /\ \E i \in DOMAIN nodes : Defective(nodes, i, TakenIds(handler))
        => /\ handler.result.status = StatusBadRequest
           /\ handler.result.outcome \in {"duplicate-base", "validation"}
           /\ handler.result.content = <<>>
           /\ handler.result.sha = NoSha

\* The only defective node is an execution type, after a valid variation and a valid
\* sub-variation: the request is answered 400 by the validation.
C6_Witness ==
    LET nodes == FlatNodes(handler.body.variations, 1)
    IN  /\ handler.pc = "handled"
        /\ Len(nodes) = 3
        /\ nodes[3].level = 3
        /\ Defective(nodes, 3, TakenIds(handler))
        /\ \A i \in 1..2 : ~Defective(nodes, i, TakenIds(handler))
        /\ handler.result.status = StatusBadRequest
        /\ handler.result.outcome = "validation"

(***************************************************************************)
(* C9: normalization is idempotent: for every tree processVariations       *)
(* accepts, processVariations on its own output, written as JSON and read  *)
(* back, with the same pre-existing ids, answers a tree identical to that  *)
(* output in every field.  C9_Idempotent states it; C9_IdempotentButFlag   *)
(* states it of every field but isUnilateral, which the second run sets to *)
(* false in every node.                                                    *)
(***************************************************************************)
JsonNodes(nodes) == [i \in DOMAIN nodes |-> JsonNode(nodes[i])]

\* The tree with isUnilateral false in every node.
RECURSIVE FlagsCleared(_)
FlagsCleared(nodes) ==
    [i \in DOMAIN nodes |->
        [k \in DOMAIN nodes[i] |->
            IF k = "isUnilateral" THEN BoolFalse
            ELSE IF k \in {"subVariations", "executionTypes"}
                 THEN FlagsCleared(nodes[i][k])
                 ELSE nodes[i][k]]]

C9_Idempotent ==
    handler.pc = "renormalized" =>
        /\ handler.renorm.error = NoError
        /\ JsonNodes(handler.renorm.items) = JsonNodes(handler.norm.items)

\* A node of the submitted tree, at any level, has isUnilateral 'true'.
RECURSIVE SubmitsTrueFlag(_)
SubmitsTrueFlag(nodes) ==
    \E i \in DOMAIN nodes :
        \/ Field(nodes[i], "isUnilateral") = StrTrue
        \/ SubmitsTrueFlag(Elements(nodes[i], "subVariations"))
        \/ SubmitsTrueFlag(Elements(nodes[i], "executionTypes"))

C9_IdempotentButFlag ==
    handler.pc = "renormalized" =>
        /\ handler.renorm.error = NoError
        /\ JsonNodes(handler.renorm.items) = FlagsCleared(JsonNodes(handler.norm.items))
        /\ (JsonNodes(handler.renorm.items) = JsonNodes(handler.norm.items))
              = ~SubmitsTrueFlag(handler.body.variations)

\* A tree of three levels with white space around an id, an imageUrl and a flag
\* 'true' was accepted and normalized again.
C9_Witness ==
    LET nodes == FlatNodes(handler.body.variations, 1)
    IN  /\ handler.pc = "renormalized"
        /\ Len(nodes) = 3
        /\ nodes[3].level = 3
        /\ SubmitsTrueFlag(handler.body.variations)
        /\ \E i \in DOMAIN handler.body.variations :
              /\ Field(handler.body.variations[i], "imageUrl") \notin {Undefined, ""}
              /\ Trim(handler.body.variations[i].id) # handler.body.variations[i].id
        /\ JsonNodes(handler.renorm.items) # JsonNodes(handler.norm.items)

(***************************************************************************)
(* C10: a submission in which two nodes of the submitted tree have equal   *)
(* post-trim ids is rejected with the duplicate-id validation error:       *)
(* siblings, nodes of different levels, nodes under different parents.     *)
(* It is stated of the submissions that break no other rule: the request   *)
(* passes the basic validation, no id is one of the document, every id is  *)
(* of the pattern and every name is non-empty.  The exercise is the first  *)
(* node of the tree.                                                       *)
(***************************************************************************)
SubmittedNodes(body) ==
    <<[id |-> body.baseId, name |-> body.baseName, level |-> 0]>>
        \o FlatNodes(body.variations, 1)

C10_DuplicateRejected ==
    LET nodes == SubmittedNodes(handler.body)
    IN  /\ handler.pc # "received"
        /\ ~BasicValidationFails(handler.body)
        /\ \A i \in DOMAIN nodes :
              /\ TestIdPattern(nodes[i].id)
              /\ nodes[i].name # <<>>
              /\ nodes[i].id \notin TakenIds(handler)
        /\ \E i, j \in DOMAIN nodes : i # j /\ nodes[i].id = nodes[j].id
        => /\ handler.result.status = StatusBadRequest
           /\ handler.result.error = DuplicateId

(***************************************************************************)
(* C7: after a successful Update the committed document has as many        *)
(* top-level exercises as the fetched one, and none with the id            *)
(* originalBaseId unless that is the submitted baseId.                     *)
(***************************************************************************)
C7_UpdateReplaces ==
    Committed /\ IsEditRequest(last.body) =>
        /\ Len(AllItems(last.content)) = Len(AllItems(last.fetched))
        /\ last.body.originalBaseId # last.body.baseId =>
              \A i \in DOMAIN AllItems(last.content) :
                  AllItems(last.content)[i].id # last.body.originalBaseId

(***************************************************************************)
(* C8: after a successful Create whose group matches no group of the       *)
(* fetched document, case ignored, the committed document has exactly one  *)
(* group with that name, case ignored, and it holds the new exercise,      *)
(* without a variations key when none was submitted; a Create whose group  *)
(* matches a group adds no group and appends to that group.                *)
(***************************************************************************)
\* The exercise with that id is an item of the group, with the key variations
\* exactly when variations were submitted.
HoldsNew(group, body) ==
    \E i \in DOMAIN group.items :
        /\ group.items[i].id = body.baseId
        /\ group.items[i].name = body.baseName
        /\ ("variations" \in DOMAIN group.items[i]) = (body.variations # <<>>)

\* The items of two arrays are the same but for their order.
SameItems(a, b) ==
    /\ Len(a) = Len(b)
    /\ \A x \in Range(a) \cup Range(b) :
          Cardinality({i \in DOMAIN a : a[i] = x}) = Cardinality({i \in DOMAIN b : b[i] = x})

C8_CreateAddsToGroup ==
    Committed /\ ~IsEditRequest(last.body) =>
        LET old == GroupsNamed(last.fetched, last.body.group)
            new == GroupsNamed(last.content, last.body.group)
        IN  /\ Cardinality(new) = 1
            /\ \A g \in new : HoldsNew(last.content[g], last.body)
            /\ IF old = {}
               THEN /\ Len(last.content) = Len(last.fetched) + 1
                    /\ \A g \in new : Len(last.content[g].items) = 1
               ELSE /\ Len(last.content) = Len(last.fetched)
                    /\ \A g \in new, h \in old :
                          /\ last.content[g].group = last.fetched[h].group
                          /\ Len(last.content[g].items) = Len(last.fetched[h].items) + 1
                          /\ \E i \in DOMAIN last.content[g].items :
                                /\ last.content[g].items[i].id = last.body.baseId
                                /\ SameItems(last.fetched[h].items,
                                             [j \in 1..(Len(last.content[g].items) - 1) |->
                                                last.content[g].items[IF j < i THEN j ELSE j + 1]])

\* A Create without variations made the group of the document, and a second Create
\* that writes this group's name in another case was appended to it.
C8_Witness ==
    /\ Committed
    /\ ~IsEditRequest(last.body)
    /\ last.fetched \notin InitDocs
    /\ Len(last.fetched) = 1
    /\ Len(last.fetched[1].items) = 1
    /\ "variations" \notin DOMAIN last.fetched[1].items[1]
    /\ last.fetched[1].group # last.body.group
    /\ GroupsNamed(last.fetched, last.body.group) = {1}
    /\ storeDoc = last.content
    /\ Len(storeDoc[1].items) = 2

(***************************************************************************)
(* C11: a request that takes the add-new branch and whose baseId is an id  *)
(* of the document its handler fetched (of an exercise, a variation, a     *)
(* sub-variation or an execution type) is answered with the duplicate-id   *)
(* error (400) and calls no commit.  It is stated of the requests whose    *)
(* handler reaches the check: the basic validation passed, the fetch       *)
(* answered and the sha was the fetched one.                               *)
(***************************************************************************)
\* Every id of the four levels of the document.
DocumentIds(doc) == {NodeIdList(AllItems(doc))[i] : i \in DOMAIN NodeIdList(AllItems(doc))}

\* The last response is to a request whose handler went past the sha comparison.
PastShaCheck == last.outcome \notin {"none", "basic", "fetch-error", "conflict"}

C11_CreateOfTakenIdRejected ==
    /\ PastShaCheck
    /\ ~IsEditRequest(last.body)
    /\ last.body.baseId \in DocumentIds(last.fetched)
    => /\ last.outcome = "duplicate-base"
       /\ last.status = StatusBadRequest
       /\ last.content = <<>>

(***************************************************************************)
(* C12: a request with editMode "true" and an absent or empty              *)
(* originalBaseId is rejected and commits nothing: it is not processed as  *)
(* a Create that appends an exercise.                                      *)
(***************************************************************************)
C12_EditNeedsOriginalId ==
    /\ last.client # ""
    /\ last.body.editMode = "true"
    /\ ~Truthy(last.body.originalBaseId)
    => /\ last.status \in {StatusBadRequest, StatusConflict, StatusServerError}
       /\ last.outcome \notin {"committed", "commit-conflict", "commit-error"}

(***************************************************************************)
(* C13: a successful Update changes only the entry it replaces: the new    *)
(* exercise is in the group that held originalBaseId whatever group was    *)
(* submitted, the groups are the same, and every other exercise of every   *)
(* group is in its group with the content it had; only positions change.   *)
(***************************************************************************)
\* The exercises of a document, each with the name of its group.
RECURSIVE Entries(_)
Entries(doc) ==
    IF doc = <<>> THEN <<>>
    ELSE Entries(SubSeq(doc, 1, Len(doc) - 1))
            \o [i \in DOMAIN doc[Len(doc)].items |->
                   <<doc[Len(doc)].group, doc[Len(doc)].items[i]>>]

\* The array without its element p.
Without(arr, p) == [j \in 1..(Len(arr) - 1) |-> arr[IF j < p THEN j ELSE j + 1]]

GroupNames(doc) == [g \in DOMAIN doc |-> doc[g].group]

C13_UpdateChangesOneEntry ==
    Committed /\ IsEditRequest(last.body) =>
        LET old == Entries(last.fetched)
            new == Entries(last.content)
        IN  /\ SameItems(GroupNames(last.fetched), GroupNames(last.content))
            /\ \E p \in DOMAIN old, q \in DOMAIN new :
                  /\ old[p][2].id = last.body.originalBaseId
                  /\ new[q][1] = old[p][1]
                  /\ new[q][2].id = last.body.baseId
                  /\ new[q][2].name = last.body.baseName
                  /\ SameItems(Without(old, p), Without(new, q))

\* An Update that submits a group no group of the document is named, on a document
\* of several exercises of which the one replaced is not the first of its group.
C13_Witness ==
    /\ Committed
    /\ IsEditRequest(last.body)
    /\ GroupsNamed(last.fetched, last.body.group) = {}
    /\ GroupsNamed(last.content, last.body.group) = {}
    /\ Len(AllItems(last.fetched)) > 2
    /\ \E g \in DOMAIN last.fetched :
          FindItemIndex(last.fetched[g].items, last.body.originalBaseId) > 1
    /\ last.body.originalBaseId # last.body.baseId
    /\ storeDoc = last.content

(***************************************************************************)
(* C14: the validation error of a rejected submission is that of the first *)
(* rule the first defective node breaks, the nodes taken in the order of   *)
(* the document (a node before its children and its later siblings).       *)
(* C14_NameRuleFirst states it with the rules in the order empty name,     *)
(* invalid id, duplicate id; C14_IdRuleFirst in the order invalid id,      *)
(* empty name, duplicate id.                                               *)
(***************************************************************************)
\* The first node of the list that breaks a rule, 0 when none does.
FirstDefective(nodes, ids) ==
    IF \E i \in DOMAIN nodes : Defective(nodes, i, ids)
    THEN CHOOSE i \in DOMAIN nodes :
            /\ Defective(nodes, i, ids)
            /\ \A j \in 1..(i - 1) : ~Defective(nodes, j, ids)
    ELSE 0

LevelNameOf(level) ==
    IF level = 1 THEN LevelVariation
    ELSE IF level = 2 THEN LevelSubVariation
    ELSE LevelExecutionType

\* The handler's run reached processVariations: the base id passed its checks.
ReachedValidation ==
    /\ handler.pc # "received"
    /\ handler.result.outcome \in {"validation", "commit", "not-found"}

C14_NameRuleFirst ==
    LET nodes == FlatNodes(handler.body.variations, 1)
        first == FirstDefective(nodes, TakenIds(handler))
    IN  ReachedValidation /\ first # 0 =>
            /\ handler.result.outcome = "validation"
            /\ handler.result.status = StatusBadRequest
            /\ handler.norm.level = LevelNameOf(nodes[first].level)
            /\ handler.result.error =
                  IF nodes[first].name = <<>> THEN EmptyName
                  ELSE IF ~TestIdPattern(nodes[first].id) THEN InvalidId
                  ELSE DuplicateId

C14_IdRuleFirst ==
    LET nodes == FlatNodes(handler.body.variations, 1)
        first == FirstDefective(nodes, TakenIds(handler))
    IN  ReachedValidation =>
            IF first = 0
            THEN handler.result.outcome # "validation" /\ handler.norm.error = NoError
            ELSE /\ handler.result.outcome = "validation"
                 /\ handler.result.status = StatusBadRequest
                 /\ handler.norm.level = LevelNameOf(nodes[first].level)
                 /\ handler.result.error = handler.norm.error
                 /\ handler.result.error =
                       IF ~TestIdPattern(nodes[first].id) THEN InvalidId
                       ELSE IF nodes[first].name = <<>> THEN EmptyName
                       ELSE DuplicateId

\* The first defective node is a sub-variation with an empty name and an id of the
\* wrong pattern, before a sibling of its parent that is defective too: the answer
\* is the invalid id of the sub-variation.
C14_Witness ==
    LET nodes == FlatNodes(handler.body.variations, 1)
        first == FirstDefective(nodes, TakenIds(handler))
    IN  /\ handler.pc = "handled"
        /\ Len(nodes) = 3
        /\ first = 2
        /\ nodes[2].level = 2
        /\ nodes[2].name = <<>>
        /\ ~TestIdPattern(nodes[2].id)
        /\ nodes[3].level = 1
        /\ Defective(nodes, 3, TakenIds(handler))
        /\ handler.result.error = InvalidId
        /\ handler.norm.level = LevelSubVariation

(***************************************************************************)
(* C15: no node whose name is empty after trimming is ever committed, at   *)
(* any of the four levels, the exercise included: a request whose baseName *)
(* is white space only is answered with a validation error (400) and calls *)
(* no commit, when its handler reaches the validation.                     *)
(***************************************************************************)
\* The names of a list of nodes and of the levels below them.
RECURSIVE NodeNameList(_)
NodeNameList(nodes) ==
    IF nodes = <<>> THEN <<>>
    ELSE LET n == nodes[1]
         IN  <<n.name>> \o NodeNameList(Elements(n, "variations"))
                        \o NodeNameList(Elements(n, "subVariations"))
                        \o NodeNameList(Elements(n, "executionTypes"))
                        \o NodeNameList(Tail(nodes))

NamesNonEmpty(doc) ==
    \A i \in DOMAIN NodeNameList(AllItems(doc)) :
        Trim(NodeNameList(AllItems(doc))[i]) # <<>>

C15_NoEmptyNameCommitted ==
    /\ NamesNonEmpty(storeDoc)
    /\ \A c \in Clients : pc[c] = "committing" => NamesNonEmpty(call[c].content)
    /\ PastShaCheck /\ Trim(last.body.baseName) = <<>> =>
          /\ last.status = StatusBadRequest
          /\ last.content = <<>>

(***************************************************************************)
(* C16: an Update whose originalBaseId is the id of no top-level exercise  *)
(* of the document its handler fetched is answered with an error and calls *)
(* no commit, so that the file is unchanged; an id of a nested node is no  *)
(* match.  When the handler reaches the edit branch the answer is 500.     *)
(***************************************************************************)
TopLevelIds(doc) == {AllItems(doc)[i].id : i \in DOMAIN AllItems(doc)}

C16_UpdateOfMissingFails ==
    /\ \A c \in Clients :
          pc[c] = "committing" /\ IsEditRequest(req[c])
             => req[c].originalBaseId \in TopLevelIds(fetched[c])
    /\ /\ last.client # ""
       /\ IsEditRequest(last.body)
       /\ last.body.originalBaseId \notin TopLevelIds(last.fetched)
       => /\ last.status \in {StatusBadRequest, StatusConflict, StatusServerError}
          /\ last.outcome \in {"basic", "fetch-error", "conflict", "duplicate-base",
                               "validation", "not-found"}
          /\ last.content = <<>>
          /\ PastShaCheck /\ last.outcome \notin {"duplicate-base", "validation"}
                => last.outcome = "not-found" /\ last.status = StatusServerError

\* An Update of an id that only a variation of the fetched document has was answered
\* 500 and the file is as it was fetched.
C16_Witness ==
    /\ last.outcome = "not-found"
    /\ last.status = StatusServerError
    /\ IsEditRequest(last.body)
    /\ last.body.originalBaseId \in DocumentIds(last.fetched)
    /\ last.body.originalBaseId \notin TopLevelIds(last.fetched)
    /\ storeDoc = last.fetched

(***************************************************************************)
(* C17: a write request never retries.  The handler of a client waits for  *)
(* a fetch only when it has just received a request, and for a commit only *)
(* when its fetch has just answered: one fetch and at most one commit per  *)
(* request.  Any other step of a handler is its response, after which it   *)
(* holds no call; a conflict, a fetch that throws and a commit that fails  *)
(* are answered with a failure and leave the file as it is.                *)
(***************************************************************************)
FailureOutcomes ==
    {"conflict", "fetch-error", "not-found", "commit-conflict", "commit-error"}

C17_NoRetry ==
    [][\A c \in Clients :
          /\ pc'[c] = "fetching" /\ pc[c] # "fetching"
                => pc[c] = "idle" /\ sent' = sent + 1
          /\ pc'[c] = "committing" /\ pc[c] # "committing" => pc[c] = "fetching"
          /\ pc[c] # "idle" /\ pc'[c] # pc[c] /\ pc'[c] # "committing"
                => /\ pc'[c] = "idle"
                   /\ Responds
                   /\ last'.client = c
                   /\ call'[c] = NoCall
          /\ Responds /\ last'.client = c /\ last'.outcome \in FailureOutcomes
                => /\ last'.status \in {StatusConflict, StatusServerError}
                   /\ pc'[c] = "idle"
                   /\ storeDoc' = storeDoc
      ]_vars

\* Both requests are over: one lost the race at its commit and was answered with a
\* failure, and no handler waits for the store.
C17_Witness ==
    /\ last.outcome = "commit-conflict"
    /\ last.status = StatusServerError
    /\ sent >= 2
    /\ \A c \in Clients : pc[c] = "idle" /\ call[c] = NoCall

(***************************************************************************)
(* C18: the ids of the exercise originalBaseId names are left out of the   *)
(* uniqueness check only on requests that take the edit branch; a request  *)
(* that takes the add-new branch and calls the commit has its base id and  *)
(* every nested id checked against every id of the fetched document:       *)
(* none of them is an id of that document.                                 *)
(***************************************************************************)
C18_ExclusionOnlyOnUpdate ==
    PastShaCheck =>
        /\ AllIdsOf(last.fetched, last.body.editMode, last.body.originalBaseId)
              # DocumentIds(last.fetched) => IsEditRequest(last.body)
        /\ ~IsEditRequest(last.body)
           /\ last.outcome \in {"committed", "commit-conflict", "commit-error"}
              => \A i \in DOMAIN SubmittedNodes(last.body) :
                    SubmittedNodes(last.body)[i].id \notin DocumentIds(last.fetched)

(***************************************************************************)
(* C19: the response of a request agrees with its effect on the file.  The *)
(* success page (200) is sent in the step in which the repository applies  *)
(* the commit of that request; a request answered 400 or 409 has called no *)
(* commit; and the file changes only in the step of a success page.        *)
(***************************************************************************)
C19_ResponseAgreesWithStore ==
    [][/\ Responds /\ last'.status = StatusOk
            => /\ pc[last'.client] = "committing"
               /\ StoreAccepts(storeDoc, call[last'.client].sha)
               /\ storeDoc' = call[last'.client].content
               /\ last'.content = storeDoc'
       /\ Responds /\ last'.status \in {StatusBadRequest, StatusConflict}
            => /\ pc[last'.client] \in {"idle", "fetching"}
               /\ call[last'.client] = NoCall
               /\ last'.content = <<>>
               /\ storeDoc' = storeDoc
       /\ storeDoc' # storeDoc => Responds /\ last'.status = StatusOk
      ]_vars

\* A request was answered 200 and the file holds its content, while the handler of
\* another request, which fetched the file as it was, waits for its commit.
C19_Witness ==
    /\ Committed
    /\ last.status = StatusOk
    /\ storeDoc = last.content
    /\ storeDoc # last.fetched
    /\ \E c \in Clients : pc[c] = "committing" /\ fetched[c] = last.fetched

(***************************************************************************)
(* C20: in every document a successful /add-exercise request commits, the  *)
(* items of the group that received the new exercise are sorted by name,   *)
(* given that the items of that group were sorted in the document fetched  *)
(* (a new group has none), whatever groups the document holds.             *)
(***************************************************************************)
C20_ReceivingGroupSorted ==
    /\ handler.pc = "committed"
    /\ \A h \in GroupsNamed(handler.doc, handler.body.group) :
          IsSortedBy(handler.doc[h].items, "name")
    => \A g \in DOMAIN storeDoc :
          (\E i \in DOMAIN storeDoc[g].items :
              storeDoc[g].items[i].id = handler.body.baseId)
             => IsSortedBy(storeDoc[g].items, "name")

=============================================================================
